---- MODULE Spec2Model ----
(***************************************************************************)
(* HyprlandSocket (src/canvas/wayland/config/hyprland.cpp): the client of  *)
(* the compositor's control socket.  The object's fields, the compositor   *)
(* it talks to and the process environment are the state; every member     *)
(* function is one action, computed by an operator of the same name that   *)
(* returns the object after the call, the socket events of the call in     *)
(* order and the way the call ended.                                       *)
(*                                                                         *)
(* JSON objects are records whose DOMAIN holds exactly the keys present,   *)
(* JSON arrays are sequences.  A scale s is kept as the integer 100 * s.   *)
(***************************************************************************)
EXTENDS Integers, Sequences, FiniteSets, TLC

VARIABLES
    env,            \* the process environment: XDG_RUNTIME_DIR, the socket files that exist, tmux
    comp_active,    \* the compositor's answer to j/activewindow
    comp_clients,   \* the compositor's answer to j/clients
    comp_monitors,  \* the compositor's answer to j/monitors
    constructed,    \* whether a HyprlandSocket object exists
    socket_path,    \* HyprlandSocket::socket_path
    address,        \* HyprlandSocket::address
    output_name,    \* HyprlandSocket::output_name
    output_scale,   \* HyprlandSocket::output_scale
    call            \* the member function run by the last step, its arguments, events and outcome

vars == <<env, comp_active, comp_clients, comp_monitors, constructed,
          socket_path, address, output_name, output_scale, call>>

---------------------------------------------------------------------------
(* Bounds of the model.                                                    *)

MaxClients == 2
MaxMonitors == 2

---------------------------------------------------------------------------
(* Values.                                                                 *)

Unset == "<unset>"            \* os::getenv returned no value
Nil == "<nil>"                \* no value (a void return, an unused argument)

\* A float member: one the constructor never wrote, and one holding v.
Unassigned == [assigned |-> FALSE]
Float(v) == [assigned |-> TRUE, value |-> v]

Has(json, key) == key \in DOMAIN json

\* The sequences over S of length at most n.
SeqUpTo(S, n) == UNION {[1..k -> S] : k \in 0..n}

\* Division rounding down instead.
IntDiv_floor(a, b) == a \div b

\* C++ integer division: the quotient truncated toward zero.
IntDiv(a, b) ==
    IF a >= 0 THEN a \div b ELSE -((-a) \div b)

\* fmt::format's "{}" for an int: ToString gives the decimal digits with a
\* leading minus sign.
FmtInt(n) == ToString(n)

---------------------------------------------------------------------------
(* The transport: UnixSocket, one object per exchange.                     *)

Ev(e, path, data) == [ev |-> e, path |-> path, data |-> data]

NoFault == [at |-> 0, kind |-> "none"]

\* What goes wrong in the k-th exchange of a call under the fault plan: the
\* UnixSocket constructor throws ("connect"), write throws, read_until_empty
\* throws ("read"), or njson::parse throws on what was read.
FaultOf(fault, k) ==
    IF fault.at = k THEN fault.kind ELSE "none"

\* request_result: connect, write the payload, read to the end, parse.
request_result(path, payload, response, fk) ==
    CASE fk = "connect" -> [wire |-> <<>>, status |-> "transport", json |-> Nil]
      [] fk = "write" ->
            [wire |-> <<Ev("open", path, ""), Ev("close", path, "")>>,
             status |-> "transport", json |-> Nil]
      [] fk = "read" ->
            [wire |-> <<Ev("open", path, ""), Ev("write", path, payload),
                        Ev("close", path, "")>>,
             status |-> "transport", json |-> Nil]
      [] fk = "parse" ->
            [wire |-> <<Ev("open", path, ""), Ev("write", path, payload),
                        Ev("read", path, ""), Ev("close", path, "")>>,
             status |-> "parse", json |-> Nil]
      [] OTHER ->
            [wire |-> <<Ev("open", path, ""), Ev("write", path, payload),
                        Ev("read", path, ""), Ev("close", path, "")>>,
             status |-> "ok", json |-> response]

\* request reading the answer as request_result does.
request_reads(path, payload, fk) ==
    CASE fk = "connect" -> [wire |-> <<>>, status |-> "transport"]
      [] fk = "write" ->
            [wire |-> <<Ev("open", path, ""), Ev("close", path, "")>>,
             status |-> "transport"]
      [] OTHER ->
            [wire |-> <<Ev("open", path, ""), Ev("write", path, payload),
                        Ev("read", path, ""), Ev("close", path, "")>>,
             status |-> "ok"]

\* request: connect and write the payload; the answer is not read.
request(path, payload, fk) ==
    CASE fk = "connect" -> [wire |-> <<>>, status |-> "transport"]
      [] fk = "write" ->
            [wire |-> <<Ev("open", path, ""), Ev("close", path, "")>>,
             status |-> "transport"]
      [] OTHER ->
            [wire |-> <<Ev("open", path, ""), Ev("write", path, payload),
                        Ev("close", path, "")>>,
             status |-> "ok"]

---------------------------------------------------------------------------
(* The object and its member functions.                                    *)

\* The members before the constructor's body runs: empty strings, and a
\* float nothing has written.
NewObject ==
    [socket_path |-> "", address |-> "", output_name |-> "", output_scale |-> Unassigned]

\* What a member function hands back: the object after it, the socket events
\* in order, how it ended ("ok", or the exception: "transport", "parse",
\* "field", "notfound"), the value returned and the exchanges started so far.
Outcome(self, wire, status, ret, n) ==
    [self |-> self, wire |-> wire, status |-> status, ret |-> ret, n |-> n]

\* The outcome of a member function that is one request c.
Sent(self, c, n) == Outcome(self, c.wire, c.status, Nil, n)

\* SocketPath without the fallback to /tmp.
SocketPath_no_fallback(signature, e) ==
    (IF e.xdg = Unset THEN "/tmp" ELSE e.xdg) \o "/" \o "hypr/" \o signature
        \o "/.socket.sock"

\* The constructor's choice of socket_path (lines 33-39).
SocketPath(signature, e) ==
    LET socket_base_dir == IF e.xdg = Unset THEN "/tmp" ELSE e.xdg
        socket_rel_path == "hypr/" \o signature \o "/.socket.sock"
        primary == socket_base_dir \o "/" \o socket_rel_path
    IN  IF primary \notin e.files THEN "/tmp/" \o socket_rel_path ELSE primary

\* ScanMonitors without the break: the last focused entry wins.
RECURSIVE ScanMonitors_no_break(_, _, _)
ScanMonitors_no_break(self, monitors, i) ==
    IF i > Len(monitors) THEN [self |-> self, status |-> "ok"]
    ELSE IF ~Has(monitors[i], "focused") THEN [self |-> self, status |-> "field"]
    ELSE IF monitors[i].focused
         THEN IF ~Has(monitors[i], "name") THEN [self |-> self, status |-> "field"]
              ELSE LET named == [self EXCEPT !.output_name = monitors[i].name]
                   IN  IF ~Has(monitors[i], "scale")
                       THEN [self |-> named, status |-> "field"]
                       ELSE ScanMonitors_no_break(
                                [named EXCEPT !.output_scale = Float(monitors[i].scale)],
                                monitors, i + 1)
    ELSE ScanMonitors_no_break(self, monitors, i + 1)

\* The loop of set_active_monitor from entry i on: the first entry whose
\* "focused" is true gives output_name, then output_scale, and ends the loop.
RECURSIVE ScanMonitors(_, _, _)
ScanMonitors(self, monitors, i) ==
    IF i > Len(monitors) THEN [self |-> self, status |-> "ok"]
    ELSE IF ~Has(monitors[i], "focused") THEN [self |-> self, status |-> "field"]
    ELSE IF monitors[i].focused
         THEN IF ~Has(monitors[i], "name") THEN [self |-> self, status |-> "field"]
              ELSE LET named == [self EXCEPT !.output_name = monitors[i].name]
                   IN  IF ~Has(monitors[i], "scale")
                       THEN [self |-> named, status |-> "field"]
                       ELSE [self |-> [named EXCEPT !.output_scale = Float(monitors[i].scale)],
                             status |-> "ok"]
    ELSE ScanMonitors(self, monitors, i + 1)

set_active_monitor(self, monitors, fault, n) ==
    LET q == request_result(self.socket_path, "j/monitors", monitors,
                            FaultOf(fault, n + 1))
    IN  IF q.status # "ok" THEN Outcome(self, q.wire, q.status, Nil, n + 1)
        ELSE LET s == ScanMonitors(self, q.json, 1)
             IN  Outcome(s.self, q.wire, s.status, Nil, n + 1)

\* HyprlandSocket::HyprlandSocket
Constructor(signature, e, active, monitors, fault) ==
    LET pathed == [NewObject EXCEPT !.socket_path = SocketPath(signature, e)]
        q == request_result(pathed.socket_path, "j/activewindow", active,
                            FaultOf(fault, 1))
    IN  IF q.status # "ok" THEN Outcome(pathed, q.wire, q.status, Nil, 1)
        ELSE IF ~Has(q.json, "address") THEN Outcome(pathed, q.wire, "field", Nil, 1)
        ELSE LET addressed == [pathed EXCEPT !.address = q.json.address]
                 m == set_active_monitor(addressed, monitors, fault, 1)
             IN  Outcome(m.self, q.wire \o m.wire, m.status, Nil, m.n)

\* get_focused_output_name returning another member.
get_focused_output_name_address(self) ==
    Outcome(self, <<>>, "ok", self.address, 0)

get_focused_output_name(self) ==
    Outcome(self, <<>>, "ok", self.output_name, 0)

\* FindClient stopping one entry early.
RECURSIVE FindClient_skip_last(_, _, _)
FindClient_skip_last(clients, addr, i) ==
    IF i >= Len(clients) THEN [status |-> "notfound", index |-> 0]
    ELSE IF ~Has(clients[i], "address") THEN [status |-> "field", index |-> 0]
    ELSE IF clients[i].address = addr THEN [status |-> "ok", index |-> i]
    ELSE FindClient_skip_last(clients, addr, i + 1)

\* ranges::find_if over the clients from entry i on: the index of the first
\* entry whose "address" equals the cached one.
RECURSIVE FindClient(_, _, _)
FindClient(clients, addr, i) ==
    IF i > Len(clients) THEN [status |-> "notfound", index |-> 0]
    ELSE IF ~Has(clients[i], "address") THEN [status |-> "field", index |-> 0]
    ELSE IF clients[i].address = addr THEN [status |-> "ok", index |-> i]
    ELSE FindClient(clients, addr, i + 1)

\* The first three lines of get_active_window: under tmux the address is
\* asked for again.  Refreshed is what follows the answer q.
Refreshed(self, q, n) ==
    IF q.status # "ok" THEN Outcome(self, q.wire, q.status, Nil, n)
    ELSE IF ~Has(q.json, "address") THEN Outcome(self, q.wire, "field", Nil, n)
    ELSE Outcome([self EXCEPT !.address = q.json.address], q.wire, "ok", Nil, n)

\* RefreshAddress without the tmux branch.
RefreshAddress_never(self, e, active, fault, n) ==
    Outcome(self, <<>>, "ok", Nil, n)

RefreshAddress(self, e, active, fault, n) ==
    IF e.tmux
    THEN Refreshed(self,
                   request_result(self.socket_path, "j/activewindow", active,
                                  FaultOf(fault, n + 1)),
                   n + 1)
    ELSE Outcome(self, <<>>, "ok", Nil, n)

\* Lines 88-92: the search of the answer q to j/clients, after the refresh r.
Searched(r, q, client) ==
    Outcome(r.self, r.wire \o q.wire, client.status,
            IF client.status = "ok" THEN q.json[client.index] ELSE Nil, r.n + 1)

Listed(r, q) ==
    IF q.status # "ok" THEN Outcome(r.self, r.wire \o q.wire, q.status, Nil, r.n + 1)
    ELSE Searched(r, q, FindClient(q.json, r.self.address, 1))

\* Lines 87-92, after the refresh r.
Lookup(r, clients, fault) ==
    IF r.status # "ok" THEN r
    ELSE Listed(r, request_result(r.self.socket_path, "j/clients", clients,
                                  FaultOf(fault, r.n + 1)))

get_active_window(self, e, active, clients, fault, n) ==
    Lookup(RefreshAddress(self, e, active, fault, n), clients, fault)

\* Lines 97-105 of get_window_info, on the outcome t of get_active_window.
Geometry(t) ==
    IF t.status # "ok" THEN t
    ELSE IF ~Has(t.ret, "size") \/ ~Has(t.ret, "at")
    THEN [t EXCEPT !.status = "field", !.ret = Nil]
    ELSE [t EXCEPT !.ret = [width |-> t.ret.size[1], height |-> t.ret.size[2],
                            x |-> t.ret.at[1], y |-> t.ret.at[2]]]

get_window_info(self, e, active, clients, fault, n) ==
    Geometry(get_active_window(self, e, active, clients, fault, n))

\* The four rules of initial_setup and change_workspace: one request each.
disable_focus(self, appid, fault, n) ==
    Sent(self,
         request(self.socket_path, "/keyword windowrulev2 nofocus,title:" \o appid,
                     FaultOf(fault, n + 1)),
         n + 1)

enable_floating(self, appid, fault, n) ==
    Sent(self,
         request(self.socket_path, "/keyword windowrulev2 float,title:" \o appid,
                     FaultOf(fault, n + 1)),
         n + 1)

remove_borders(self, appid, fault, n) ==
    Sent(self,
         request(self.socket_path, "/keyword windowrulev2 noborder,title:" \o appid,
                     FaultOf(fault, n + 1)),
         n + 1)

remove_rounding(self, appid, fault, n) ==
    Sent(self,
         request(self.socket_path, "/keyword windowrulev2 rounding 0,title:" \o appid,
                     FaultOf(fault, n + 1)),
         n + 1)

change_workspace(self, appid, workspaceid, fault, n) ==
    Sent(self,
         request(self.socket_path,
                     "/dispatch movetoworkspacesilent " \o FmtInt(workspaceid)
                         \o ",title:" \o appid,
                     FaultOf(fault, n + 1)),
         n + 1)

\* Then going on to b after a threw.
Then_goes_on(a, b) ==
    [b EXCEPT !.wire = a.wire \o b.wire]

\* b after a, unless a threw: the events of both, the outcome of the last run.
Then(a, b) ==
    IF a.status # "ok" THEN a ELSE [b EXCEPT !.wire = a.wire \o b.wire]

\* initial_setup with float before nofocus.
initial_setup_reordered(self, appid, fault) ==
    LET s1 == enable_floating(self, appid, fault, 0)
        s2 == Then(s1, disable_focus(self, appid, fault, 1))
        s3 == Then(s2, remove_borders(self, appid, fault, 2))
    IN  Then(s3, remove_rounding(self, appid, fault, 3))

initial_setup(self, appid, fault) ==
    LET s1 == disable_focus(self, appid, fault, 0)
        s2 == Then(s1, enable_floating(self, appid, fault, 1))
        s3 == Then(s2, remove_borders(self, appid, fault, 2))
    IN  Then(s3, remove_rounding(self, appid, fault, 3))

\* The position move_window sends (lines 153-159); greater says how the
\* comparison output_scale > 1.0F came out.
Offset == 10
ScaleOne == 100

Position(xcoord, ycoord, greater) ==
    IF greater
    THEN [x |-> IntDiv(xcoord, 2) + Offset, y |-> IntDiv(ycoord, 2) + Offset]
    ELSE [x |-> xcoord, y |-> ycoord]

\* output_scale > 1.0F; the value of a float never written is indeterminate,
\* and the comparison comes out either way (indet).
ScaleGreater(scale, indet) ==
    IF scale.assigned THEN scale.value > ScaleOne ELSE indet

\* Lines 153-161 of move_window, after change_workspace (moved).
MovePixel(moved, appid, res, fault) ==
    IF moved.status # "ok" THEN moved
    ELSE Then(moved,
              Sent(moved.self,
                   request(moved.self.socket_path,
                           "/dispatch movewindowpixel exact " \o FmtInt(res.x) \o " "
                               \o FmtInt(res.y) \o ",title:" \o appid,
                           FaultOf(fault, moved.n + 1)),
                   moved.n + 1))

\* MoveFound without the call of change_workspace.
MoveFound_no_workspace(terminal, appid, xcoord, ycoord, fault, indet) ==
    IF terminal.status # "ok" THEN terminal
    ELSE IF ~Has(terminal.ret, "workspace") \/ ~Has(terminal.ret.workspace, "id")
    THEN [terminal EXCEPT !.status = "field", !.ret = Nil]
    ELSE MovePixel([terminal EXCEPT !.ret = Nil], appid,
                   Position(xcoord, ycoord, ScaleGreater(terminal.self.output_scale, indet)),
                   fault)

\* Lines 149-161 of move_window, on the outcome of get_active_window.
MoveFound(terminal, appid, xcoord, ycoord, fault, indet) ==
    IF terminal.status # "ok" THEN terminal
    ELSE IF ~Has(terminal.ret, "workspace") \/ ~Has(terminal.ret.workspace, "id")
    THEN [terminal EXCEPT !.status = "field", !.ret = Nil]
    ELSE MovePixel(Then([terminal EXCEPT !.ret = Nil],
                        change_workspace(terminal.self, appid, terminal.ret.workspace.id,
                                         fault, terminal.n)),
                   appid,
                   Position(xcoord, ycoord, ScaleGreater(terminal.self.output_scale, indet)),
                   fault)

move_window(self, e, active, clients, appid, xcoord, ycoord, fault, indet) ==
    MoveFound(get_active_window(self, e, active, clients, fault, 0),
              appid, xcoord, ycoord, fault, indet)

---------------------------------------------------------------------------
(* What the compositor and the environment can hold.                       *)

Window(addr, workspaceid, size, at) ==
    [address |-> addr, workspace |-> [id |-> workspaceid], size |-> size, at |-> at]

WinA == Window("0x1", 1, <<800, 600>>, <<0, 0>>)
WinA2 == Window("0x1", -98, <<640, 480>>, <<10, 20>>)   \* WinA's address, a special workspace
WinB == Window("0x2", 2, <<300, 200>>, <<5, 7>>)
WinNoAddress == [workspace |-> [id |-> 1], size |-> <<1, 1>>, at |-> <<0, 0>>]
WinNoWorkspace == [address |-> "0x1", size |-> <<300, 200>>, at |-> <<5, 7>>]
WinNoSize == [address |-> "0x1", workspace |-> [id |-> 1], at |-> <<0, 0>>]

Monitor(name, scale, focused) == [name |-> name, scale |-> scale, focused |-> focused]

Outputs == {<<"DP-1", 100>>, <<"eDP-1", 150>>, <<"HDMI-A-1", 200>>}

MonitorEntries ==
    {Monitor(o[1], o[2], TRUE) : o \in Outputs}
        \cup {Monitor("DP-1", 100, FALSE)}
        \cup {[name |-> "DP-3", scale |-> 100]}          \* no "focused"
        \cup {[name |-> "DP-2", focused |-> TRUE]}      \* no "scale"

Signature == "sig"
RuntimeDir == "/run/user/1000"
PrimarySocket == RuntimeDir \o "/hypr/" \o Signature \o "/.socket.sock"
LegacySocket == "/tmp/hypr/" \o Signature \o "/.socket.sock"

\* The faults of a call of at most MaxExchanges exchanges: none, or one
\* exchange failing at its connect, its write, its read or its parse.
MaxExchanges == 4

Faults ==
    {NoFault} \cup [at : 1..MaxExchanges, kind : {"connect", "write", "read", "parse"}]

UsualEnv(tmuxes) ==
    [xdg : {RuntimeDir}, files : {{PrimarySocket}}, tmux : tmuxes]

\* Commands and their failures: every fault, every scale, a few windows.
ScopeCommands ==
    [envs |-> UsualEnv(BOOLEAN),
     actives |-> {WinA},
     clients |-> {<<>>, <<WinB, WinA2, WinA>>, <<WinNoWorkspace>>, <<WinNoSize>>},
     monitors |-> {<<>>} \cup {<<Monitor(o[1], o[2], TRUE)>> : o \in Outputs},
     appids |-> {"myapp"},
     points |-> {<<100, 200>>, <<-7, 5>>},
     workspaces |-> {1, -98},
     faults |-> Faults]

\* Window lookup: every list of windows up to MaxClients.
ScopeWindows ==
    [envs |-> UsualEnv(BOOLEAN),
     actives |-> {WinA, WinB, WinNoAddress},
     clients |-> SeqUpTo({WinA, WinA2, WinB, WinNoAddress}, MaxClients),
     monitors |-> {<<Monitor("DP-1", 100, TRUE)>>},
     appids |-> {"myapp"},
     points |-> {<<100, 200>>},
     workspaces |-> {1},
     faults |-> {NoFault, [at |-> 1, kind |-> "connect"], [at |-> 2, kind |-> "parse"]}]

\* Output discovery: every list of monitors up to MaxMonitors.
ScopeOutputs ==
    [envs |-> UsualEnv({FALSE}),
     actives |-> {WinA},
     clients |-> {<<WinA>>},
     monitors |-> SeqUpTo(MonitorEntries, MaxMonitors),
     appids |-> {"myapp"},
     points |-> {<<100, 200>>},
     workspaces |-> {1},
     faults |-> {NoFault, [at |-> 2, kind |-> "parse"]}]

\* Socket location: every environment.
ScopePaths ==
    [envs |-> [xdg : {Unset, RuntimeDir}, files : SUBSET {PrimarySocket, LegacySocket},
               tmux : BOOLEAN],
     actives |-> {WinA},
     clients |-> {<<WinA>>},
     monitors |-> {<<Monitor("DP-1", 100, TRUE)>>},
     appids |-> {"myapp"},
     points |-> {<<100, 200>>},
     workspaces |-> {1},
     faults |-> {NoFault, [at |-> 1, kind |-> "connect"]}]

---------------------------------------------------------------------------
(* The steps: one per member function, and the compositor's own.           *)

Idle ==
    [op |-> "none", appid |-> Nil, x |-> 0, y |-> 0, fault |-> NoFault, indet |-> FALSE,
     wire |-> <<>>, status |-> "ok", ret |-> Nil, socket_path |-> ""]

\* The record of a call: what ran, on what, and the outcome o it had.
Called(op, appid, x, y, fault, indet, o) ==
    [op |-> op, appid |-> appid, x |-> x, y |-> y, fault |-> fault, indet |-> indet,
     wire |-> o.wire, status |-> o.status, ret |-> o.ret,
     socket_path |-> o.self.socket_path]

\* The object after a member function: its fields as the call left them.
\* An exception leaves what was assigned before it.
Keep(o) ==
    /\ socket_path' = o.self.socket_path
    /\ address' = o.self.address
    /\ output_name' = o.self.output_name
    /\ output_scale' = o.self.output_scale

Self ==
    [socket_path |-> socket_path, address |-> address,
     output_name |-> output_name, output_scale |-> output_scale]

\* new HyprlandSocket(signature): a constructor that throws leaves no object.
Construct(S) ==
    /\ ~constructed
    /\ \E fault \in S.faults :
          LET o == Constructor(Signature, env, comp_active, comp_monitors, fault)
          IN  /\ constructed' = (o.status = "ok")
              /\ Keep(IF o.status = "ok" THEN o ELSE [o EXCEPT !.self = NewObject])
              /\ call' = Called("constructor", Nil, 0, 0, fault, FALSE, o)
    /\ UNCHANGED <<env, comp_active, comp_clients, comp_monitors>>

GetFocusedOutputName ==
    /\ constructed
    /\ LET o == get_focused_output_name(Self)
       IN  Keep(o) /\ call' = Called("get_focused_output_name", Nil, 0, 0, NoFault, FALSE, o)
    /\ UNCHANGED <<env, comp_active, comp_clients, comp_monitors, constructed>>

GetActiveWindow(S) ==
    /\ constructed
    /\ \E fault \in S.faults :
          LET o == get_active_window(Self, env, comp_active, comp_clients, fault, 0)
          IN  Keep(o) /\ call' = Called("get_active_window", Nil, 0, 0, fault, FALSE, o)
    /\ UNCHANGED <<env, comp_active, comp_clients, comp_monitors, constructed>>

GetWindowInfo(S) ==
    /\ constructed
    /\ \E fault \in S.faults :
          LET o == get_window_info(Self, env, comp_active, comp_clients, fault, 0)
          IN  Keep(o) /\ call' = Called("get_window_info", Nil, 0, 0, fault, FALSE, o)
    /\ UNCHANGED <<env, comp_active, comp_clients, comp_monitors, constructed>>

InitialSetup(S) ==
    /\ constructed
    /\ \E appid \in S.appids, fault \in S.faults :
          LET o == initial_setup(Self, appid, fault)
          IN  Keep(o) /\ call' = Called("initial_setup", appid, 0, 0, fault, FALSE, o)
    /\ UNCHANGED <<env, comp_active, comp_clients, comp_monitors, constructed>>

\* change_workspace(appid, workspaceid): the record keeps workspaceid in x.
ChangeWorkspace(S) ==
    /\ constructed
    /\ \E appid \in S.appids, workspaceid \in S.workspaces, fault \in S.faults :
          LET o == change_workspace(Self, appid, workspaceid, fault, 0)
          IN  Keep(o) /\ call' = Called("change_workspace", appid, workspaceid, 0, fault, FALSE, o)
    /\ UNCHANGED <<env, comp_active, comp_clients, comp_monitors, constructed>>

MoveWindow(S) ==
    /\ constructed
    /\ \E appid \in S.appids, pt \in S.points, fault \in S.faults,
          indet \in (IF output_scale.assigned THEN {FALSE} ELSE BOOLEAN) :
          LET o == move_window(Self, env, comp_active, comp_clients, appid,
                               pt[1], pt[2], fault, indet)
          IN  Keep(o) /\ call' = Called("move_window", appid, pt[1], pt[2], fault, indet, o)
    /\ UNCHANGED <<env, comp_active, comp_clients, comp_monitors, constructed>>

\* The compositor changes what it would answer: focus moves, windows and
\* monitors come and go.
CompositorChange(S) ==
    /\ \/ comp_active' \in S.actives /\ UNCHANGED <<comp_clients, comp_monitors>>
       \/ comp_clients' \in S.clients /\ UNCHANGED <<comp_active, comp_monitors>>
       \/ comp_monitors' \in S.monitors /\ UNCHANGED <<comp_active, comp_clients>>
    /\ call' = Idle
    /\ UNCHANGED <<env, constructed, socket_path, address, output_name, output_scale>>

InitIn(S) ==
    /\ env \in S.envs
    /\ comp_active \in S.actives
    /\ comp_clients \in S.clients
    /\ comp_monitors \in S.monitors
    /\ constructed = FALSE
    /\ socket_path = NewObject.socket_path
    /\ address = NewObject.address
    /\ output_name = NewObject.output_name
    /\ output_scale = NewObject.output_scale
    /\ call = Idle

NextIn(S) ==
    \/ Construct(S)
    \/ GetFocusedOutputName
    \/ GetActiveWindow(S)
    \/ GetWindowInfo(S)
    \/ InitialSetup(S)
    \/ ChangeWorkspace(S)
    \/ MoveWindow(S)
    \/ CompositorChange(S)

Spec == InitIn(ScopeCommands) /\ [][NextIn(ScopeCommands)]_vars
SpecWindows == InitIn(ScopeWindows) /\ [][NextIn(ScopeWindows)]_vars
SpecOutputs == InitIn(ScopeOutputs) /\ [][NextIn(ScopeOutputs)]_vars
SpecPaths == InitIn(ScopePaths) /\ [][NextIn(ScopePaths)]_vars

---------------------------------------------------------------------------
(* What the properties below read off a call.                              *)

\* The payloads written during a call, in order.
Writes(wire) ==
    LET w == SelectSeq(wire, LAMBDA ev : ev.ev = "write")
    IN  [i \in 1..Len(w) |-> w[i].data]

Queries == {"j/activewindow", "j/monitors", "j/clients"}

\* The entries of a j/clients answer whose "address" is addr.
Matches(clients, addr) ==
    {i \in 1..Len(clients) : Has(clients[i], "address") /\ clients[i].address = addr}

WellFormedClients(clients) ==
    \A i \in 1..Len(clients) : Has(clients[i], "address")

\* The calls that look the active window up.
Lookups == {"get_active_window", "get_window_info", "move_window"}

\* The first entry of a j/clients answer whose "address" is addr.
FirstMatch(clients, addr) ==
    CHOOSE i \in Matches(clients, addr) : \A j \in Matches(clients, addr) : i <= j

\* The payloads of a call that are commands, in order.
Commands(wire) == SelectSeq(Writes(wire), LAMBDA d : d \notin Queries)

WorkspaceCmd(id, appid) ==
    "/dispatch movetoworkspacesilent " \o ToString(id) \o ",title:" \o appid

PixelCmd(x, y, appid) ==
    "/dispatch movewindowpixel exact " \o ToString(x) \o " " \o ToString(y)
        \o ",title:" \o appid

\* x / 2 truncated toward zero: the q with x = 2q + r, r of the sign of x.
Half(x) ==
    CHOOSE q \in -(x * x)..(x * x) :
        \E r \in {-1, 0, 1} : x = 2 * q + r /\ (r # 0 => (r > 0) = (x > 0))

\* The two positions move_window can send for (x, y).
PixelCmds(x, y, appid) ==
    {PixelCmd(x, y, appid), PixelCmd(Half(x) + 10, Half(y) + 10, appid)}

Rules(appid) ==
    << "/keyword windowrulev2 nofocus,title:" \o appid,
       "/keyword windowrulev2 float,title:" \o appid,
       "/keyword windowrulev2 noborder,title:" \o appid,
       "/keyword windowrulev2 rounding 0,title:" \o appid >>

---------------------------------------------------------------------------
(* C1: get_active_window throws "Active window not found" exactly when no  *)
(* entry of the j/clients answer carries the cached address (the address   *)
(* as refreshed by the call under tmux); whenever the queries succeed and  *)
(* an entry matches, it returns an entry with that address.  A call whose  *)
(* exchanges succeed on well-formed answers ends in one of the two ways.   *)
C1_NotFoundIffNoMatch ==
    call.op = "get_active_window" =>
        /\ call.status = "notfound" => Matches(comp_clients, address) = {}
        /\ call.status = "ok" =>
               /\ Matches(comp_clients, address) # {}
               /\ Has(call.ret, "address") /\ call.ret.address = address
               /\ \E i \in Matches(comp_clients, address) : call.ret = comp_clients[i]
        /\ ( /\ call.fault = NoFault
             /\ WellFormedClients(comp_clients)
             /\ env.tmux => Has(comp_active, "address") )
               => /\ call.status \in {"ok", "notfound"}
                  /\ call.status = "notfound" <=> Matches(comp_clients, address) = {}

\* The error is raised on a list of two windows, neither of them the
\* cached one.
C1_Witness ==
    /\ call.op = "get_active_window"
    /\ call.status = "notfound"
    /\ Len(comp_clients) >= 2
    /\ WellFormedClients(comp_clients)

\* A window found among several entries with its address, under tmux.
C1_WitnessFound ==
    /\ call.op = "get_active_window"
    /\ call.status = "ok"
    /\ env.tmux
    /\ Cardinality(Matches(comp_clients, address)) >= 2

---------------------------------------------------------------------------
(* C8: under tmux every lookup of the active window first writes           *)
(* j/activewindow, takes the answer's address as the cached one, and only  *)
(* then writes j/clients; without tmux no call after the constructor       *)
(* writes j/activewindow and no step changes the cached address, whatever  *)
(* window the compositor reports as active.                                *)
C8_RefreshState ==
    LET w == Writes(call.wire)
    IN  /\ (call.op = "constructor" /\ call.status = "ok") => address = comp_active.address
        /\ (call.op \in Lookups /\ env.tmux) =>
               /\ call.fault = NoFault => Len(w) >= 1
               /\ Len(w) >= 1 => w[1] = "j/activewindow"
               /\ (call.fault = NoFault /\ Has(comp_active, "address")) => Len(w) >= 2
               /\ Len(w) >= 2 =>
                      /\ w[2] = "j/clients"
                      /\ Has(comp_active, "address") /\ address = comp_active.address
               /\ \A i \in 1..Len(w) : w[i] = "j/activewindow" => i = 1
        /\ (call.op # "constructor" /\ ~env.tmux) =>
               \A i \in 1..Len(w) : w[i] # "j/activewindow"

C8_Refresh ==
    /\ []C8_RefreshState
    /\ [][(constructed /\ ~env.tmux) => address' = address]_vars

\* Without tmux a lookup succeeds on the address of construction although
\* the compositor now reports another window as active.
C8_Witness ==
    /\ ~env.tmux
    /\ call.op = "get_active_window"
    /\ call.status = "ok"
    /\ Has(comp_active, "address") /\ comp_active.address # address

---------------------------------------------------------------------------
(* C2: a move_window that returns has sent exactly two commands, first the *)
(* workspace move whose id is the workspace.id of the window record the    *)
(* call looked up, then the pixel move; and in no call, however it ends,   *)
(* is a pixel move sent that does not follow that workspace move.          *)
C2_WorkspaceBeforePixel ==
    call.op = "move_window" =>
        LET cmds == Commands(call.wire)
            pixels == PixelCmds(call.x, call.y, call.appid)
        IN  /\ Len(cmds) <= 2
            /\ call.status = "ok" => Len(cmds) = 2 /\ cmds[2] \in pixels
            /\ Len(cmds) >= 1 =>
                   /\ Matches(comp_clients, address) # {}
                   /\ cmds[1] = WorkspaceCmd(
                          comp_clients[FirstMatch(comp_clients, address)].workspace.id,
                          call.appid)
                   /\ cmds[1] \notin pixels
            /\ \A i \in 1..Len(cmds) : cmds[i] \in pixels => i = 2

\* A move that returns, of a window on the special workspace -98 that is
\* not the first entry of the list.
C2_Witness ==
    /\ call.op = "move_window"
    /\ call.status = "ok"
    /\ Len(comp_clients) >= 2
    /\ FirstMatch(comp_clients, address) = 2
    /\ Commands(call.wire)[1] = "/dispatch movetoworkspacesilent -98,title:myapp"

---------------------------------------------------------------------------
(* C3: the pixel move of a move_window(appid, x, y) that returns carries   *)
(* (x, y) when the cached output scale is at most 1.0 and                  *)
(* (x/2 + 10, y/2 + 10), the quotients truncated toward zero, when it is   *)
(* above 1.0: 1.0 and (100, 200) give "100 200", 2.0 and 1.5 give          *)
(* "60 110", and (-7, 5) above 1.0 gives "7 12".                           *)
C3_PixelPosition ==
    (call.op = "move_window" /\ call.status = "ok" /\ output_scale.assigned) =>
        LET sent == Commands(call.wire)[2]
            scaled == output_scale.value > 100
        IN  /\ ~scaled => sent = PixelCmd(call.x, call.y, call.appid)
            /\ scaled => sent = PixelCmd(Half(call.x) + 10, Half(call.y) + 10, call.appid)
            /\ (call.x = 100 /\ call.y = 200 /\ call.appid = "myapp") =>
                   /\ output_scale.value = 100 =>
                          sent = "/dispatch movewindowpixel exact 100 200,title:myapp"
                   /\ output_scale.value \in {150, 200} =>
                          sent = "/dispatch movewindowpixel exact 60 110,title:myapp"
            /\ (call.x = -7 /\ call.y = 5 /\ call.appid = "myapp") =>
                   /\ output_scale.value = 100 =>
                          sent = "/dispatch movewindowpixel exact -7 5,title:myapp"
                   /\ output_scale.value \in {150, 200} =>
                          sent = "/dispatch movewindowpixel exact 7 12,title:myapp"

\* A negative odd x and an odd y moved under scale 1.5.
C3_Witness ==
    /\ call.op = "move_window"
    /\ call.status = "ok"
    /\ output_scale.assigned /\ output_scale.value = 150
    /\ call.x = -7 /\ call.y = 5

---------------------------------------------------------------------------
(* C4: an initial_setup(appid) that meets no transport error opens four    *)
(* connections and writes on them, in this order, the nofocus, float,      *)
(* noborder and rounding 0 rules for title:<appid>, four different         *)
(* payloads; it writes no query, reads nothing, and leaves socket_path,    *)
(* address, output_name and output_scale as they were.                     *)
C4_RulesState ==
    (call.op = "initial_setup" /\ call.status = "ok") =>
        /\ Writes(call.wire) = Rules(call.appid)
        /\ Len(call.wire) = 12
        /\ \A i \in 1..Len(call.wire) : call.wire[i].ev # "read"
        /\ \A i, j \in 1..4 : i # j => Rules(call.appid)[i] # Rules(call.appid)[j]
        /\ call.appid = "myapp" =>
               Writes(call.wire) = << "/keyword windowrulev2 nofocus,title:myapp",
                                      "/keyword windowrulev2 float,title:myapp",
                                      "/keyword windowrulev2 noborder,title:myapp",
                                      "/keyword windowrulev2 rounding 0,title:myapp" >>

C4_InitialRules ==
    /\ []C4_RulesState
    /\ [][call'.op = "initial_setup" =>
              UNCHANGED <<socket_path, address, output_name, output_scale>>]_vars

C4_Witness ==
    /\ call.op = "initial_setup"
    /\ call.status = "ok"
    /\ call.appid = "myapp"
    /\ Len(Writes(call.wire)) = 4

---------------------------------------------------------------------------
(* C6 and C7 read the connections of a call off its events.                *)

\* The connections of a call: <<i, j>>, opened by event i, closed by j.
Connections(wire) ==
    {c \in (1..Len(wire)) \X (1..Len(wire)) :
        /\ c[1] < c[2]
        /\ wire[c[1]].ev = "open"
        /\ wire[c[2]].ev = "close"
        /\ \A k \in (c[1] + 1)..(c[2] - 1) : wire[k].ev \notin {"open", "close"}}

EventsOf(wire, c, kind) == {k \in c[1]..c[2] : wire[k].ev = kind}

\* One connection at a time: every open follows a close or starts the call,
\* every other event is on the open connection, and the call ends closed.
OneAtATime(wire) ==
    /\ \A i \in 1..Len(wire) :
          IF wire[i].ev = "open" THEN i = 1 \/ wire[i - 1].ev = "close"
          ELSE i > 1 /\ wire[i - 1].ev # "close"
    /\ Len(wire) > 0 => wire[Len(wire)].ev = "close"

\* The connection a transport error cut short, if any: the last one.
CutShort(c) == call.status = "transport" /\ c[2] = Len(call.wire)

---------------------------------------------------------------------------
(* C7: a failure ends the call where it happens and is its outcome.  With  *)
(* the k-th exchange failing nothing is written after it, and no payload   *)
(* is written twice; a lookup that fails inside move_window leaves both    *)
(* commands unsent; an initial_setup whose k-th rule fails has written     *)
(* exactly the first k-1 rules.                                            *)

\* A fault that keeps the payload of its exchange from being written.
WriteFails(fault) == fault.kind \in {"connect", "write"}

C7_FailureAborts ==
    LET w == Writes(call.wire)
        k == call.fault.at
    IN  /\ \A i, j \in 1..Len(w) : i # j => w[i] # w[j]
        /\ call.status \in {"transport", "parse"} =>
               /\ k >= 1
               /\ Len(w) = IF WriteFails(call.fault) THEN k - 1 ELSE k
               /\ Cardinality(Connections(call.wire)) \in {k - 1, k}
               /\ ~WriteFails(call.fault) => w[k] \in Queries
        /\ call.status \in {"notfound", "field"} =>
               Len(w) >= 1 /\ w[Len(w)] \in Queries
        /\ call.op = "constructor" => (constructed <=> call.status = "ok")
        /\ ( /\ call.op = "move_window"
             /\ \/ k \in 1..(IF env.tmux THEN 2 ELSE 1)
                \/ Matches(comp_clients, address) = {} )
               => /\ call.status # "ok"
                  /\ \A i \in 1..Len(w) : w[i] \in Queries
        /\ call.op = "initial_setup" =>
               IF WriteFails(call.fault) /\ k \in 1..Len(Rules(call.appid))
               THEN /\ call.status = "transport"
                    /\ w = SubSeq(Rules(call.appid), 1, k - 1)
               ELSE call.status = "ok" /\ w = Rules(call.appid)

\* The third rule of initial_setup fails: nofocus and float were sent,
\* noborder and rounding were not.
C7_Witness ==
    /\ call.op = "initial_setup"
    /\ call.fault = [at |-> 3, kind |-> "connect"]
    /\ call.status = "transport"
    /\ Writes(call.wire) = << "/keyword windowrulev2 nofocus,title:myapp",
                              "/keyword windowrulev2 float,title:myapp" >>

---------------------------------------------------------------------------
(* What C5, C9 and C10 read off a j/monitors answer.                       *)

\* The entries whose "focused" is true.
Focused(monitors) ==
    {i \in 1..Len(monitors) : Has(monitors[i], "focused") /\ monitors[i].focused}

FirstFocused(monitors) ==
    CHOOSE i \in Focused(monitors) : \A j \in Focused(monitors) : i <= j

---------------------------------------------------------------------------
(* C5: the constructor leaves in output_name the name of a monitor whose   *)
(* "focused" was true in the j/monitors answer it read (the only such      *)
(* monitor when there is one); get_focused_output_name returns             *)
(* output_name; and once the object exists no call and no change of the    *)
(* compositor's monitors changes output_name or output_scale.              *)
C5_NameState ==
    /\ (call.op = "constructor" /\ call.status = "ok" /\ Focused(comp_monitors) # {}) =>
           /\ \E i \in Focused(comp_monitors) :
                  /\ output_name = comp_monitors[i].name
                  /\ output_scale = Float(comp_monitors[i].scale)
    /\ call.op = "get_focused_output_name" =>
           call.status = "ok" /\ call.ret = output_name /\ call.wire = <<>>

C5_OutputNameStable ==
    /\ []C5_NameState
    /\ [][constructed => /\ constructed'
                         /\ output_name' = output_name
                         /\ output_scale' = output_scale]_vars

\* The name of construction is returned while the compositor reports
\* another monitor as the focused one.
C5_Witness ==
    /\ call.op = "get_focused_output_name"
    /\ call.ret = "eDP-1"
    /\ Focused(comp_monitors) # {}
    /\ \A i \in Focused(comp_monitors) : comp_monitors[i].name = "HDMI-A-1"

---------------------------------------------------------------------------
(* C10: the constructor takes name and scale from the first entry of the   *)
(* j/monitors answer whose "focused" is true, whatever follows it, entries *)
(* without "focused" included; on an answer with no focused entry, the     *)
(* empty one included, it completes with output_name empty and             *)
(* output_scale never written, and get_focused_output_name returns "".     *)
C10_FirstFocused ==
    /\ (call.op = "constructor" /\ call.fault = NoFault) =>
           LET ms == comp_monitors
           IN  /\ ( /\ Focused(ms) # {}
                    /\ \A i \in 1..FirstFocused(ms) : Has(ms[i], "focused")
                    /\ Has(ms[FirstFocused(ms)], "name")
                    /\ Has(ms[FirstFocused(ms)], "scale") )
                   => /\ call.status = "ok" /\ constructed
                      /\ output_name = ms[FirstFocused(ms)].name
                      /\ output_scale = Float(ms[FirstFocused(ms)].scale)
               /\ (\A i \in 1..Len(ms) : Has(ms[i], "focused") /\ ~ms[i].focused)
                   => /\ call.status = "ok" /\ constructed
                      /\ output_name = ""
                      /\ output_scale = Unassigned
    /\ (call.op = "get_focused_output_name" /\ ~output_scale.assigned) =>
           call.status = "ok" /\ call.ret = ""

\* The first of two entries is focused and the second has no "focused".
C10_Witness ==
    /\ call.op = "constructor"
    /\ call.status = "ok"
    /\ Len(comp_monitors) = 2
    /\ Focused(comp_monitors) # {}
    /\ FirstFocused(comp_monitors) = 1
    /\ ~Has(comp_monitors[2], "focused")

\* An object built on an answer with an unfocused monitor only.
C10_WitnessNone ==
    /\ call.op = "get_focused_output_name"
    /\ call.ret = ""
    /\ ~output_scale.assigned

---------------------------------------------------------------------------
(* C9: the constructor sets socket_path to                                 *)
(* <XDG_RUNTIME_DIR>/hypr/<signature>/.socket.sock, /tmp standing in for   *)
(* an unset XDG_RUNTIME_DIR, when that file exists, and to                 *)
(* /tmp/hypr/<signature>/.socket.sock when it does not, whether or not the *)
(* latter exists; every connection of the constructor and of every later   *)
(* call is opened on socket_path, which no later step changes.             *)
C9_PathState ==
    /\ call.op = "constructor" =>
           /\ (env.xdg = "/run/user/1000"
                   /\ "/run/user/1000/hypr/sig/.socket.sock" \in env.files)
                 => call.socket_path = "/run/user/1000/hypr/sig/.socket.sock"
           /\ (env.xdg = "/run/user/1000"
                   /\ "/run/user/1000/hypr/sig/.socket.sock" \notin env.files)
                 => call.socket_path = "/tmp/hypr/sig/.socket.sock"
           /\ env.xdg = Unset => call.socket_path = "/tmp/hypr/sig/.socket.sock"
           /\ call.status = "ok" => socket_path = call.socket_path
           /\ call.fault = NoFault => Len(call.wire) > 0
    /\ \A i \in 1..Len(call.wire) : call.wire[i].path = call.socket_path
    /\ constructed => call.op = "none" \/ call.socket_path = socket_path

C9_SocketPath ==
    /\ []C9_PathState
    /\ [][constructed => socket_path' = socket_path]_vars

\* XDG_RUNTIME_DIR is set, only the socket under /tmp exists, and the
\* constructor's two queries went to it.
C9_Witness ==
    /\ call.op = "constructor"
    /\ call.status = "ok"
    /\ env.xdg = "/run/user/1000"
    /\ env.files = {"/tmp/hypr/sig/.socket.sock"}
    /\ Writes(call.wire) = <<"j/activewindow", "j/monitors">>
    /\ \A i \in 1..Len(call.wire) : call.wire[i].path = "/tmp/hypr/sig/.socket.sock"

====
